---------------------------- MODULE Spec2Model ----------------------------
(***************************************************************************)
(* Model of the session-correlated streaming tool-invocation bridge of     *)
(* ton_agent/app.py: the analysis request (async_analyze_prompt), its      *)
(* background stream worker (sse_session_and_stream) and the conversation  *)
(* history store (append_session_history / get_session_history).           *)
(***************************************************************************)
EXTENDS Integers, Sequences, FiniteSets, TLC

(***************************************************************************)
(* Bounds of the model.                                                    *)
(***************************************************************************)
MaxEvents == 12      \* events the remote stream delivers to one worker
MaxNoise == 2        \* of which at most this many are not put on message_queue
TickLen == 5         \* seconds by which one Tick advances the clock
MaxAppends == 7      \* appends performed in the history-store specification
MaxCalls == 6        \* calls of append_session_history by the concurrent threads
MaxGets == 3         \* calls of get_mcp_tools
MaxText == 4         \* tokens of a reply text
MaxBlocks == 2       \* blocks of a list reply
MaxWords == 2        \* words and blanks of a routing reply
MaxStreamEvents == 4 \* events of the stream whose origin is logged
ClockStep == 100     \* seconds by which the clock of the catalog cache advances
MaxClock == 700      \* last value of that clock

(***************************************************************************)
(* Program constants.                                                      *)
(***************************************************************************)
SESSION_HISTORY_MAXLEN == 5
SID_TIMEOUT == 10        \* session_id_queue.get(timeout=10)
GET_TIMEOUT == 10        \* message_queue.get(timeout=10)
MAX_ITEMS == 10          \* while count < 10
BUDGET == 60             \* time.time() - start_time < 60
ACCEPTED == 202

None == "None"
Keys == {"k1", "k2"}
Entries == {"e1", "e2"}
Sids == {"A", "B"}
ToolNames == {"analyze_address", "get_transaction_details"}
Statuses == {202, 500}
PENDING == 0             \* POST sent, response not yet received
RAISED == -1             \* the POST raised instead of returning a response
RETURNED == 1            \* the POST returned a response whose status is not used
NoItem == 0              \* last_result = None: no item relayed yet

SSEEvents ==
  {[event |-> "endpoint", data |-> d] : d \in Sids \cup {"nosid"}}
    \cup {[event |-> "message", data |-> d] : d \in {"obj", "array", "bad"}}
    \cup {[event |-> "ping", data |-> "x"]}

VARIABLES
  pc,                \* position of the request in async_analyze_prompt
  session_id,        \* conversation-session key of the request
  prompt,            \* the prompt of the request
  parsed,            \* the mapping returned by the entity extraction
  tool,              \* resolved tool name or None
  tool_args,         \* "address", "tx_hash" or None
  mcp_tools,         \* the catalog get_mcp_tools returned to this request
  output,            \* lines yielded by the request so far
  posts,             \* POSTs to /messages/ in send order: [method, sid, status]
  mcp_session_id,    \* identifier dequeued by the caller, or None
  count,             \* items relayed in the streaming loop
  last_result,       \* data of the last relayed item, or None
  elapsed,           \* seconds since start_time
  waited,            \* seconds spent in the current blocking queue.get
  stop_event,        \* threading.Event shared with the worker
  joined,            \* sse_thread.join() has returned
  wpc,               \* worker: "idle", "connecting", "reading", "quiet", "ended", "failed"
  wsession_id,       \* worker-local session_id
  nread,             \* events the worker has read
  noise,             \* of which not put on message_queue
  firstSid,          \* sid of the first endpoint event carrying one (history variable)
  session_id_queue,
  message_queue,
  SESSION_HISTORY,   \* key -> sequence of entries, oldest first
  appendLog,         \* history variable: every (key, entry) appended, in call order
  lastRead,          \* response of the /session_history read being returned, or NoRead
  heap,              \* the list objects created by append_session_history, by identity
  bind,              \* key -> identity of the list SESSION_HISTORY holds under it
  appender,          \* thread -> position and locals inside append_session_history
  mcp_tools_cache,       \* _mcp_tools_cache: the catalog stored, or NoCache
  mcp_tools_cache_time,  \* _mcp_tools_cache_time
  now,                   \* time.time()
  getLog,                \* history variable: the calls of get_mcp_tools, in order
  claude,            \* call_claude: position, model, attempt and result of the call
  attempts,          \* history variable: the POSTs of the call with their answers
  parse,             \* an LLM reply and what the two extraction parsers make of it
  intent,            \* an LLM reply, a catalog and what the tool router makes of them
  getter,            \* each thread's position inside get_mcp_tools and its local now
  cache_lock,        \* the holder of _mcp_tools_cache_lock, or None
  lockLog,           \* history variable: the calls of get_mcp_tools that returned
  route,             \* the inputs of tool resolution and what it makes of them
  stream             \* the worker and the relay loop alone, with the log of the events read

bridgeVars == <<pc, session_id, prompt, parsed, tool, tool_args, mcp_tools, output, posts, mcp_session_id, count,
                last_result, elapsed, waited, stop_event, joined>>
workerVars == <<wpc, wsession_id, nread, noise, firstSid>>
queueVars == <<session_id_queue, message_queue>>
storeVars == <<SESSION_HISTORY, appendLog, lastRead>>
concVars == <<heap, bind, appender>>
cacheVars == <<mcp_tools_cache, mcp_tools_cache_time, now, getLog>>
claudeVars == <<claude, attempts>>
llmVars == <<parse, intent>>
lockVars == <<getter, cache_lock, lockLog>>
routeVars == <<route>>
streamVars == <<stream>>
auxVars == <<concVars, cacheVars, claudeVars, llmVars, lockVars, routeVars, streamVars>>
vars == <<bridgeVars, workerVars, queueVars, storeVars, auxVars>>

Min(a, b) == IF a < b THEN a ELSE b

\* a line of the output stream: its kind, and the text or number it carries
Line(tag, str, num) == [tag |-> tag, str |-> str, num |-> num]

(***************************************************************************)
(* Conversation history store.                                             *)
(***************************************************************************)
\* append_session_history keeping the first SESSION_HISTORY_MAXLEN entries instead of the last
append_session_history_keep_oldest(store, key, entry) ==
  LET cur == IF key \in DOMAIN store THEN store[key] ELSE <<>>
      app == Append(cur, entry)
      new == IF Len(app) > SESSION_HISTORY_MAXLEN
               THEN SubSeq(app, 1, SESSION_HISTORY_MAXLEN)
               ELSE app
  IN  [k \in DOMAIN store \cup {key} |-> IF k = key THEN new ELSE store[k]]

\* append_session_history: the store after appending entry under key
append_session_history(store, key, entry) ==
  LET cur == IF key \in DOMAIN store THEN store[key] ELSE <<>>
      app == Append(cur, entry)
      new == IF Len(app) > SESSION_HISTORY_MAXLEN
               THEN SubSeq(app, Len(app) - SESSION_HISTORY_MAXLEN + 1, Len(app))
               ELSE app
  IN  [k \in DOMAIN store \cup {key} |-> IF k = key THEN new ELSE store[k]]

\* get_session_history: SESSION_HISTORY.get(session_id, [])
get_session_history(store, key) ==
  IF key \in DOMAIN store THEN store[key] ELSE <<>>

EmptyStore == [k \in {} |-> <<>>]

NoRead == [session_id |-> None, history |-> <<>>]

(***************************************************************************)
(* append_session_history as the request threads of the server execute it: *)
(* no lock is taken, so a thread can be preempted between any two of its   *)
(* reads and writes of SESSION_HISTORY.  Lists are objects: a reference    *)
(* loaded from the dict still names the old list after the key was bound   *)
(* to a new one.                                                           *)
(***************************************************************************)
Threads == {"t1", "t2"}

NoRef == 0

\* a thread outside append_session_history
Idle == [pc |-> "idle", key |-> None, entry |-> NoItem, ref |-> NoRef, tmp |-> <<>>]

\* the mapping the program sees: each key with the content of the list bound to it
StoreView(h, b) == [k \in DOMAIN b |-> h[b[k]]]

\* a step of thread t that leaves the heap and the dict as they are
Local(t, a) ==
  /\ appender' = [appender EXCEPT ![t] = a]
  /\ UNCHANGED <<heap, bind, SESSION_HISTORY>>

\* a step of thread t that changes a list or binds a key
Shared(t, a, h, b) ==
  /\ appender' = [appender EXCEPT ![t] = a]
  /\ heap' = h
  /\ bind' = b
  /\ SESSION_HISTORY' = StoreView(h, b)

\* line 102: thread t enters append_session_history(key, entry); the entry is named
\* by the ordinal of the call
AppendCall(t, key) ==
  /\ appender[t].pc = "idle"
  /\ Len(appendLog) < MaxCalls
  /\ appendLog' = Append(appendLog, <<key, Len(appendLog) + 1>>)
  /\ Local(t, [Idle EXCEPT !.pc = "check", !.key = key, !.entry = Len(appendLog) + 1])
  /\ UNCHANGED <<bridgeVars, workerVars, queueVars, lastRead, cacheVars, claudeVars, llmVars, lockVars, routeVars, streamVars>>

\* line 103: if session_id not in SESSION_HISTORY
AppendCheck(t) ==
  /\ appender[t].pc = "check"
  /\ Local(t, [appender[t] EXCEPT
                 !.pc = IF appender[t].key \in DOMAIN bind THEN "load" ELSE "create"])
  /\ UNCHANGED <<bridgeVars, workerVars, queueVars, appendLog, lastRead, cacheVars, claudeVars, llmVars, lockVars, routeVars, streamVars>>

\* line 104: SESSION_HISTORY[session_id] = []
AppendCreate(t) ==
  /\ appender[t].pc = "create"
  /\ Shared(t, [appender[t] EXCEPT !.pc = "load"],
            Append(heap, <<>>),
            [k \in DOMAIN bind \cup {appender[t].key} |->
               IF k = appender[t].key THEN Len(heap) + 1 ELSE bind[k]])
  /\ UNCHANGED <<bridgeVars, workerVars, queueVars, appendLog, lastRead, cacheVars, claudeVars, llmVars, lockVars, routeVars, streamVars>>

\* lines 105, 106, 107: the subscription SESSION_HISTORY[session_id] loads a
\* reference to the list now bound to the key
AppendLoad(t) ==
  /\ appender[t].pc \in {"load", "load_len", "load_slice"}
  /\ Local(t, [appender[t] EXCEPT
                 !.ref = bind[appender[t].key],
                 !.pc = CASE appender[t].pc = "load" -> "append"
                          [] appender[t].pc = "load_len" -> "len"
                          [] appender[t].pc = "load_slice" -> "slice"])
  /\ UNCHANGED <<bridgeVars, workerVars, queueVars, appendLog, lastRead, cacheVars, claudeVars, llmVars, lockVars, routeVars, streamVars>>

\* line 105: .append(entry) on the list loaded
AppendToList(t) ==
  /\ appender[t].pc = "append"
  /\ Shared(t, [appender[t] EXCEPT !.pc = "load_len", !.ref = NoRef],
            [heap EXCEPT ![appender[t].ref] = Append(@, appender[t].entry)], bind)
  /\ UNCHANGED <<bridgeVars, workerVars, queueVars, appendLog, lastRead, cacheVars, claudeVars, llmVars, lockVars, routeVars, streamVars>>

\* line 106: if len(...) > SESSION_HISTORY_MAXLEN; the call returns when it is not
AppendLen(t) ==
  /\ appender[t].pc = "len"
  /\ Local(t, IF Len(heap[appender[t].ref]) > SESSION_HISTORY_MAXLEN
                THEN [appender[t] EXCEPT !.pc = "load_slice", !.ref = NoRef]
                ELSE Idle)
  /\ UNCHANGED <<bridgeVars, workerVars, queueVars, appendLog, lastRead, cacheVars, claudeVars, llmVars, lockVars, routeVars, streamVars>>

\* line 107, right-hand side: [-SESSION_HISTORY_MAXLEN:] builds a new list from the
\* list loaded
AppendSlice(t) ==
  /\ appender[t].pc = "slice"
  /\ LET l == heap[appender[t].ref]
         n == Len(l)
     IN  Local(t, [appender[t] EXCEPT
                    !.pc = "store", !.ref = NoRef,
                    !.tmp = SubSeq(l, n - Min(n, SESSION_HISTORY_MAXLEN) + 1, n)])
  /\ UNCHANGED <<bridgeVars, workerVars, queueVars, appendLog, lastRead, cacheVars, claudeVars, llmVars, lockVars, routeVars, streamVars>>

\* line 107, assignment: the key is bound to the new list and the call returns
AppendStore(t) ==
  /\ appender[t].pc = "store"
  /\ Shared(t, Idle, Append(heap, appender[t].tmp),
            [bind EXCEPT ![appender[t].key] = Len(heap) + 1])
  /\ UNCHANGED <<bridgeVars, workerVars, queueVars, appendLog, lastRead, cacheVars, claudeVars, llmVars, lockVars, routeVars, streamVars>>

ConcNext ==
  \E t \in Threads :
    \/ \E k \in Keys : AppendCall(t, k)
    \/ AppendCheck(t)
    \/ AppendCreate(t)
    \/ AppendLoad(t)
    \/ AppendToList(t)
    \/ AppendLen(t)
    \/ AppendSlice(t)
    \/ AppendStore(t)

(***************************************************************************)
(* The tool catalog and its cache: get_mcp_tools.                          *)
(***************************************************************************)
MCP_TOOLS_CACHE_TTL == 300

\* a catalog is the set of its tool names
Catalogs == SUBSET ToolNames

\* _mcp_tools_cache = None
NoCache == {None}

\* what GET /tools does: a body with a list of tools, or one of the failures
FetchFailures == {"connection_error", "http_status", "malformed_body"}
Fetches == {[kind |-> "ok", tools |-> c] : c \in Catalogs}
             \cup {[kind |-> k, tools |-> {}] : k \in FetchFailures}

\* line 62, left operand: None and the empty dict are both false
Truthy(c) == c # NoCache /\ c # {}

\* line 62: the stored catalog is returned without a fetch
Fresh(c, t, n) == Truthy(c) /\ n - t < MCP_TOOLS_CACHE_TTL

\* only the exceptions of the requests library are caught: a body that is no JSON
\* object with a list of named tools raises out of the function
Caught_requests_only(kind) == kind # "malformed_body"

\* lines 64-75: every failure of the fetch is an Exception raised inside the try
Caught(kind) == kind \in FetchFailures

\* lines 58-75: the cache, its time and the log record after one call at time n
\* during which the fetch, if made, does f
get_mcp_tools_result(c, t, n, f) ==
  IF Fresh(c, t, n)
    THEN [cache |-> c, time |-> t,
          call |-> [outcome |-> "cached", tools |-> {}, returned |-> c, raised |-> FALSE,
                    stored |-> c]]
  ELSE IF f.kind = "ok"
    THEN [cache |-> f.tools, time |-> n,
          call |-> [outcome |-> "ok", tools |-> f.tools, returned |-> f.tools,
                    raised |-> FALSE, stored |-> c]]
  ELSE [cache |-> c, time |-> t,
        call |-> [outcome |-> f.kind, tools |-> {}, returned |-> {},
                  raised |-> ~Caught(f.kind), stored |-> c]]

\* lines 58-75: one call of get_mcp_tools, under _mcp_tools_cache_lock
get_mcp_tools(f) ==
  /\ Len(getLog) < MaxGets
  /\ LET r == get_mcp_tools_result(mcp_tools_cache, mcp_tools_cache_time, now, f)
     IN  /\ mcp_tools_cache' = r.cache
         /\ mcp_tools_cache_time' = r.time
         /\ getLog' = Append(getLog, r.call)
  /\ UNCHANGED <<now, bridgeVars, workerVars, queueVars, storeVars, concVars, claudeVars, llmVars, lockVars, routeVars, streamVars>>

\* time passes between two calls
CacheClock ==
  /\ now + ClockStep <= MaxClock
  /\ now' = now + ClockStep
  /\ UNCHANGED <<mcp_tools_cache, mcp_tools_cache_time, getLog>>
  /\ UNCHANGED <<bridgeVars, workerVars, queueVars, storeVars, concVars, claudeVars, llmVars, lockVars, routeVars, streamVars>>

CacheNext ==
  \/ \E f \in Fetches : get_mcp_tools(f)
  \/ CacheClock

(***************************************************************************)
(* The LLM call with retry and model fallback: call_claude.                *)
(***************************************************************************)
RETRIES == 1             \* def call_claude(prompt, session_id=None, retries=1)

models_to_try == <<"claude-3-7-sonnet-latest", "claude-3-5-sonnet-20241022">>

\* line 169 with the server error 500 taken for an overload
OverloadStatuses_with_500 == {529, 429, 503, 500}

OverloadStatuses == {529, 429, 503}

\* what one POST to the provider does: a response with a status, or an exception
\* of the transport or of the decoding of the body
Answers == {[kind |-> "response", status |-> st] : st \in {200, 400, 500} \cup OverloadStatuses}
             \cup {[kind |-> "exception", status |-> 0]}

Overloaded(a) == a.kind = "response" /\ a.status \in OverloadStatuses

NotCalled == [pc |-> "idle", model |-> 1, attempt |-> 0, result |-> "none"]

Return(m, k, result) == [pc |-> "returned", model |-> m, attempt |-> k, result |-> result]

\* an overloaded model is given up at once: no second attempt on the same model
call_claude_step_no_retry(m, k, a) ==
  IF a.kind = "exception" THEN Return(m, k, "request_failed")
  ELSE IF a.status = 200 THEN Return(m, k, "content")
  ELSE IF a.status \in OverloadStatuses
    THEN IF m = 1
           THEN [pc |-> "posting", model |-> m + 1, attempt |-> 0, result |-> "none"]
           ELSE Return(m, k, "overloaded")
  ELSE Return(m, k, "api_error")

\* lines 148-187: what the loops do after attempt k on model m was answered with a
call_claude_step(m, k, a) ==
  IF a.kind = "exception" THEN Return(m, k, "request_failed")
  ELSE IF a.status = 200 THEN Return(m, k, "content")
  ELSE IF a.status \in OverloadStatuses
    THEN IF k < RETRIES
           THEN [pc |-> "posting", model |-> m, attempt |-> k + 1, result |-> "none"]
         ELSE IF m = 1
           THEN [pc |-> "posting", model |-> m + 1, attempt |-> 0, result |-> "none"]
         ELSE Return(m, k, "overloaded")
  ELSE Return(m, k, "api_error")

\* lines 118-156: call_claude is called and reaches its first POST
CallClaude ==
  /\ claude.pc = "idle"
  /\ claude' = [NotCalled EXCEPT !.pc = "posting"]
  /\ UNCHANGED attempts
  /\ UNCHANGED <<bridgeVars, workerVars, queueVars, storeVars, concVars, cacheVars, llmVars, lockVars, routeVars, streamVars>>

\* lines 157-185: the POST of the current attempt is answered
ClaudeAnswers(a) ==
  /\ claude.pc = "posting"
  /\ attempts' = Append(attempts, [model |-> models_to_try[claude.model], answer |-> a])
  /\ claude' = call_claude_step(claude.model, claude.attempt, a)
  /\ UNCHANGED <<bridgeVars, workerVars, queueVars, storeVars, concVars, cacheVars, llmVars, lockVars, routeVars, streamVars>>

ClaudeNext ==
  \/ CallClaude
  \/ \E a \in Answers : ClaudeAnswers(a)

(***************************************************************************)
(* get_mcp_tools called by several request threads: the with statement of  *)
(* line 60 takes _mcp_tools_cache_lock, the return statements release it.  *)
(* The clock may advance while a thread waits for the lock or for the      *)
(* response of GET /tools.                                                 *)
(***************************************************************************)
NotGetting == [pc |-> "idle", now |-> 0, waited_fetch |-> FALSE]

\* the calls made so far: those that returned and those under way
GetsMade == Len(lockLog) + Cardinality({t \in Threads : getter[t].pc # "idle"})

\* line 58: a request thread calls get_mcp_tools
GetCall(t) ==
  /\ getter[t].pc = "idle"
  /\ GetsMade < MaxGets
  /\ getter' = [getter EXCEPT ![t] = [NotGetting EXCEPT !.pc = "acquire"]]
  /\ UNCHANGED <<cache_lock, lockLog, cacheVars>>
  /\ UNCHANGED <<bridgeVars, workerVars, queueVars, storeVars, concVars, claudeVars, llmVars, routeVars, streamVars>>

\* lines 60-61 without the with statement
GetAcquire_no_lock(t) ==
  /\ getter[t].pc = "acquire"
  /\ cache_lock' = t
  /\ getter' = [getter EXCEPT ![t].pc = "check", ![t].now = now]
  /\ UNCHANGED <<lockLog, cacheVars>>
  /\ UNCHANGED <<bridgeVars, workerVars, queueVars, storeVars, concVars, claudeVars, llmVars, routeVars, streamVars>>

\* lines 60-61: the lock is taken when it is free, then the time is read
GetAcquire(t) ==
  /\ getter[t].pc = "acquire"
  /\ cache_lock = None
  /\ cache_lock' = t
  /\ getter' = [getter EXCEPT ![t].pc = "check", ![t].now = now]
  /\ UNCHANGED <<lockLog, cacheVars>>
  /\ UNCHANGED <<bridgeVars, workerVars, queueVars, storeVars, concVars, claudeVars, llmVars, routeVars, streamVars>>

\* the record of a call that returned
GetRecord(t, outcome, returned) ==
  [thread |-> t, outcome |-> outcome, returned |-> returned, at |-> getter[t].now,
   waited_fetch |-> getter[t].waited_fetch]

\* lines 62-66: the stored catalog is returned, or the GET is sent
GetCheck(t) ==
  /\ getter[t].pc = "check"
  /\ IF Fresh(mcp_tools_cache, mcp_tools_cache_time, getter[t].now)
       THEN /\ getter' = [getter EXCEPT ![t] = NotGetting]
            /\ cache_lock' = None
            /\ lockLog' = Append(lockLog, GetRecord(t, "cached", mcp_tools_cache))
       ELSE /\ getter' = [getter EXCEPT ![t].pc = "fetching"]
            /\ UNCHANGED <<cache_lock, lockLog>>
  /\ UNCHANGED cacheVars
  /\ UNCHANGED <<bridgeVars, workerVars, queueVars, storeVars, concVars, claudeVars, llmVars, routeVars, streamVars>>

\* lines 66-75: the GET is answered; a catalog is stored with the time read on
\* line 61, a failure returns the empty mapping
GetFetched(t, f) ==
  /\ getter[t].pc = "fetching"
  /\ IF f.kind = "ok"
       THEN /\ mcp_tools_cache' = f.tools
            /\ mcp_tools_cache_time' = getter[t].now
            /\ lockLog' = Append(lockLog, GetRecord(t, "ok", f.tools))
       ELSE /\ UNCHANGED <<mcp_tools_cache, mcp_tools_cache_time>>
            /\ lockLog' = Append(lockLog, GetRecord(t, f.kind, {}))
  /\ getter' = [u \in Threads |->
                  IF u = t THEN NotGetting
                  ELSE IF getter[u].pc = "acquire" /\ f.kind = "ok" /\ f.tools # {}
                    THEN [getter[u] EXCEPT !.waited_fetch = TRUE]
                  ELSE getter[u]]
  /\ cache_lock' = None
  /\ UNCHANGED <<now, getLog>>
  /\ UNCHANGED <<bridgeVars, workerVars, queueVars, storeVars, concVars, claudeVars, llmVars, routeVars, streamVars>>

LockNext ==
  \/ \E t \in Threads : GetCall(t) \/ GetAcquire(t) \/ GetCheck(t)
  \/ \E t \in Threads, f \in Fetches : GetFetched(t, f)
  \/ CacheClock

(***************************************************************************)
(* The replies of the LLM and the parsers of the extraction reply:         *)
(* extract_json in ton_agent/app.py and the inline parser of               *)
(* prompt_handler/app.py.  A text is a sequence of tokens: braces and      *)
(* brackets, "m" for a member of an object, "n" for a number, "x" for      *)
(* prose, "f" for a code-fence marker.                                     *)
(***************************************************************************)
Tokens == {"{", "}", "[", "]", "m", "n", "x", "f"}

Texts == UNION {[1..n -> Tokens] : n \in 0..MaxText}

\* the texts a block of a list reply carries
BlockTexts == {<<>>, <<"{", "m", "}">>, <<"f", "{", "m", "}", "f">>, <<"[", "n", "]">>,
               <<"x", "{", "m", "}">>, <<"x">>}

\* a content block with a text, a bare string, a block without text field (tool
\* use), a block whose text field is no string
Blocks == {[kind |-> k, text |-> t] : k \in {"text", "str"}, t \in BlockTexts}
            \cup {[kind |-> k, text |-> <<>>] : k \in {"no_text", "text_not_str"}}

BlockLists == UNION {[1..n -> Blocks] : n \in 0..MaxBlocks}

\* what call_claude returns: a string, a list of blocks, or the error mapping
Replies == {[shape |-> "str", text |-> t, blocks |-> <<>>] : t \in Texts}
             \cup {[shape |-> "list", text |-> <<>>, blocks |-> b] : b \in BlockLists}
             \cup {[shape |-> "error_mapping", text |-> <<>>, blocks |-> <<>>]}

RECURSIVE IsJsonValue(_), AreJsonValues(_)
\* json.loads accepts the text: a number, an object of members, an array of values
IsJsonValue(t) ==
  \/ t = <<"n">>
  \/ /\ Len(t) >= 2
     /\ t[1] = "{" /\ t[Len(t)] = "}"
     /\ \A i \in 2..Len(t) - 1 : t[i] = "m"
  \/ /\ Len(t) >= 2
     /\ t[1] = "[" /\ t[Len(t)] = "]"
     /\ AreJsonValues(SubSeq(t, 2, Len(t) - 1))

AreJsonValues(t) ==
  \/ t = <<>>
  \/ \E i \in 1..Len(t) :
       IsJsonValue(SubSeq(t, 1, i)) /\ AreJsonValues(SubSeq(t, i + 1, Len(t)))

EmptyMapping == <<"{", "}">>

\* what a parser hands back: the JSON value it returns, as its text, or an exception
Raises == [raised |-> TRUE, json |-> <<>>]
Returns(json) == [raised |-> FALSE, json |-> json]

IsMapping(json) == json # <<>> /\ json[1] = "{" /\ IsJsonValue(json)

\* the two re.sub calls: a fence marker at the start, then one at the end, is dropped
StripFence(t) ==
  LET a == IF t # <<>> /\ t[1] = "f" THEN Tail(t) ELSE t
  IN  IF a # <<>> /\ a[Len(a)] = "f" THEN SubSeq(a, 1, Len(a) - 1) ELSE a

\* re.search(r'\{[\s\S]*\}', text): from the first "{" to the last "}", or <<>>
BraceSpan(t) ==
  LET opens == {i \in 1..Len(t) : t[i] = "{"}
      closes == {i \in 1..Len(t) : t[i] = "}"}
  IN  IF opens = {} \/ closes = {} THEN <<>>
      ELSE LET i == CHOOSE i \in opens : \A j \in opens : i <= j
               k == CHOOSE k \in closes : \A j \in closes : j <= k
           IN  IF i < k THEN SubSeq(t, i, k) ELSE <<>>

\* src/ton_agent/app.py lines 203-210: the text of the first block that has one
FirstText(blocks) ==
  LET found == {i \in 1..Len(blocks) : blocks[i].kind \in {"text", "text_not_str", "str"}}
  IN  IF found = {} THEN [kind |-> "no_text", text |-> <<>>]
      ELSE blocks[CHOOSE i \in found : \A j \in found : i <= j]

\* src/ton_agent/app.py lines 211-230 on a string
extract_json_str(text) ==
  LET t == StripFence(text)
      span == BraceSpan(t)
  IN  IF span # <<>> /\ IsJsonValue(span) THEN span
      ELSE IF IsJsonValue(t) THEN t
      ELSE EmptyMapping

\* src/ton_agent/app.py lines 200-234: extract_json and the test of line 232
parse_ton_agent(r) ==
  LET json == IF r.shape = "str" THEN extract_json_str(r.text)
              ELSE IF r.shape = "list" /\ FirstText(r.blocks).kind \in {"text", "str"}
                THEN extract_json_str(FirstText(r.blocks).text)
              ELSE EmptyMapping
  IN  Returns(IF IsMapping(json) THEN json ELSE EmptyMapping)

\* src/prompt_handler/app.py lines 75-82 and 91-98: strip the fence, parse once
loads_cleaned(text) ==
  IF IsJsonValue(StripFence(text)) THEN StripFence(text) ELSE <<>>

RECURSIVE parse_blocks(_)
\* src/prompt_handler/app.py lines 72-86: each block in turn until one parses;
\* .strip() of a block that is no text raises outside the try
parse_blocks(blocks) ==
  IF blocks = <<>> THEN Returns(EmptyMapping)
  ELSE IF Head(blocks).kind \in {"no_text", "text_not_str"} THEN Raises
  ELSE IF loads_cleaned(Head(blocks).text) # <<>>
    THEN Returns(loads_cleaned(Head(blocks).text))
  ELSE parse_blocks(Tail(blocks))

\* src/prompt_handler/app.py lines 61-98
parse_prompt_handler(r) ==
  IF r.shape = "list" THEN parse_blocks(r.blocks)
  ELSE IF r.shape = "str" /\ r.text # <<>> /\ loads_cleaned(r.text) # <<>>
    THEN Returns(loads_cleaned(r.text))
  ELSE Returns(EmptyMapping)

NotParsed == [raised |-> FALSE, json |-> <<>>]

NoParse == [reply |-> [shape |-> "error_mapping", text |-> <<>>, blocks |-> <<>>],
            ton_agent |-> NotParsed, prompt_handler |-> NotParsed]

\* src/ton_agent/app.py lines 197-234: the reply is parsed
ParseTonAgent ==
  /\ parse.ton_agent = NotParsed
  /\ parse' = [parse EXCEPT !.ton_agent = parse_ton_agent(parse.reply)]
  /\ UNCHANGED <<bridgeVars, workerVars, queueVars, storeVars, concVars, cacheVars, claudeVars, intent, lockVars, routeVars, streamVars>>

\* src/prompt_handler/app.py lines 69-98: the reply is parsed
ParsePromptHandler ==
  /\ parse.prompt_handler = NotParsed
  /\ parse' = [parse EXCEPT !.prompt_handler = parse_prompt_handler(parse.reply)]
  /\ UNCHANGED <<bridgeVars, workerVars, queueVars, storeVars, concVars, cacheVars, claudeVars, intent, lockVars, routeVars, streamVars>>

ParseNext == ParseTonAgent \/ ParsePromptHandler

(***************************************************************************)
(* map_intent_to_tool_llm: the reply of the LLM to the routing prompt is a *)
(* text of words.  A word is written by how it relates to the tool names:  *)
(* the name itself, the name in another case, a part of the name, the name *)
(* inside a longer word, a word that is part of every name, a word related *)
(* to no name.                                                             *)
(***************************************************************************)
Space == [base |-> "", form |-> "space"]

Words == {[base |-> b, form |-> f] : b \in ToolNames, f \in {"exact", "case", "part", "wrapped"}}
           \cup {[base |-> "", form |-> f] : f \in {"common", "other"}}

RouterTexts == UNION {[1..n -> Words \cup {Space}] : n \in 0..MaxWords}

\* the texts a block of a list reply carries
RouterBlockTexts ==
  {<<>>, <<Space>>} \cup {<<w>> : w \in {x \in Words : x.form \in {"exact", "case", "other"}}}

RouterBlocks == {[kind |-> k, text |-> t] : k \in {"text", "str"}, t \in RouterBlockTexts}
                  \cup {[kind |-> k, text |-> <<>>] : k \in {"no_text", "text_not_str"}}

RouterReplies ==
  {[shape |-> "str", text |-> t, blocks |-> <<>>] : t \in RouterTexts}
    \cup {[shape |-> "list", text |-> <<>>, blocks |-> b] :
            b \in UNION {[1..n -> RouterBlocks] : n \in 0..MaxBlocks}}
    \cup {[shape |-> "error_mapping", text |-> <<>>, blocks |-> <<>>]}

\* a catalog is a dict: its keys in insertion order
CatalogKeys == {c \in UNION {[1..n -> ToolNames] : n \in 0..Cardinality(ToolNames)} :
                 \A i, j \in 1..Len(c) : c[i] = c[j] => i = j}

\* result.strip().split()
split(text) == SelectSeq(text, LAMBDA w : w # Space)

\* tool_name in tool_names
IsKey(w, tool_names) ==
  w.form = "exact" /\ \E i \in 1..Len(tool_names) : tool_names[i] = w.base

\* line 304 with the second test left out
Related_one_direction(w, name) ==
  \/ w.form \in {"exact", "case", "part"} /\ w.base = name
  \/ w.form = "common"

\* tool_name.lower() in name.lower() or name.lower() in tool_name.lower()
Related(w, name) ==
  \/ w.form \in {"exact", "case", "part", "wrapped"} /\ w.base = name
  \/ w.form = "common"

\* lines 301-307: [0] of an empty word list raises IndexError; a word that is
\* no key gives the first related key in catalog order
first_word(words, tool_names) ==
  IF words = <<>> THEN [raised |-> TRUE, name |-> None]
  ELSE IF IsKey(words[1], tool_names) THEN [raised |-> FALSE, name |-> words[1].base]
  ELSE LET hits == {i \in 1..Len(tool_names) : Related(words[1], tool_names[i])}
       IN  [raised |-> FALSE,
            name |-> IF hits = {} THEN None
                     ELSE tool_names[CHOOSE i \in hits : \A j \in hits : i <= j]]

\* lines 291-307
map_intent_to_tool_llm(r, tool_names) ==
  IF r.shape = "str" THEN first_word(split(r.text), tool_names)
  ELSE IF r.shape = "list" /\ FirstText(r.blocks).kind \in {"text", "str"}
    THEN first_word(split(FirstText(r.blocks).text), tool_names)
  ELSE [raised |-> FALSE, name |-> None]

NoIntent == [reply |-> [shape |-> "error_mapping", text |-> <<>>, blocks |-> <<>>],
             catalog |-> <<>>, done |-> FALSE, raised |-> FALSE, name |-> None]

\* the router is called with the reply and the catalog
MapIntent ==
  /\ ~intent.done
  /\ LET res == map_intent_to_tool_llm(intent.reply, intent.catalog)
     IN  intent' = [intent EXCEPT !.done = TRUE, !.raised = res.raised, !.name = res.name]
  /\ UNCHANGED <<bridgeVars, workerVars, queueVars, storeVars, concVars, cacheVars, claudeVars, parse, lockVars, routeVars, streamVars>>

(***************************************************************************)
(* Entity extraction results, prompts and history entries as the request   *)
(* sees them.  A prompt is described by what the two regular expressions   *)
(* find in it; a parsed mapping by which of its keys carry a value.        *)
(***************************************************************************)
Prompts == [addr : BOOLEAN, tx : BOOLEAN]
ParsedValues == [addresses : {"none", "list", "other"}, address : BOOLEAN,
                 transaction_hashes : {"none", "list", "other"},
                 transaction_hash : BOOLEAN]

\* a prompt without address or hash, and the empty mapping
NoPrompt == [addr |-> FALSE, tx |-> FALSE]

NoParsed == [addresses |-> "none", address |-> FALSE, transaction_hashes |-> "none",
             transaction_hash |-> FALSE]

\* re.search of the address pattern / the hash pattern in json.dumps(turn)
EntryHasAddr(e) == e.prompt.addr \/ e.tool_args = "address"
EntryHasTx(e) == e.prompt.tx \/ e.tool_args = "tx_hash"

\* lines 327-331: the condition that selects the fallback extraction
UseFallback(pr) ==
  /\ pr.addresses = "none"
  /\ ~pr.address
  /\ pr.transaction_hashes = "none"

\* lines 332-347: address from the prompt, else from the session history
FallbackAddress(p, history) ==
  p.addr \/ \E i \in 1..Len(history) : EntryHasAddr(history[i])

\* lines 348-375: transaction hash from the prompt, else from the session history
FallbackTxHash(p, history) ==
  p.tx \/ \E i \in 1..Len(history) : EntryHasTx(history[i])

\* lines 379-394 with the hash tested before the address in the branches without hint
FallbackChoice_hash_first(tool_key, address, tx_hash) ==
  IF tool_key = "analyze_address" /\ address
    THEN [tool |-> "analyze_address", args |-> "address"]
  ELSE IF tool_key = "get_transaction_details" /\ tx_hash
    THEN [tool |-> "get_transaction_details", args |-> "tx_hash"]
  ELSE IF tx_hash
    THEN [tool |-> "get_transaction_details", args |-> "tx_hash"]
  ELSE IF address
    THEN [tool |-> "analyze_address", args |-> "address"]
  ELSE [tool |-> None, args |-> None]

\* lines 376-397: the single operation of the fallback path, or None
FallbackChoice(tool_key, address, tx_hash) ==
  IF tool_key = "analyze_address" /\ address
    THEN [tool |-> "analyze_address", args |-> "address"]
  ELSE IF tool_key = "get_transaction_details" /\ tx_hash
    THEN [tool |-> "get_transaction_details", args |-> "tx_hash"]
  ELSE IF address
    THEN [tool |-> "analyze_address", args |-> "address"]
  ELSE IF tx_hash
    THEN [tool |-> "get_transaction_details", args |-> "tx_hash"]
  ELSE [tool |-> None, args |-> None]

\* lines 403-417: arguments taken from the parsed mapping on the normal path
NormalArgs(pr) ==
  IF pr.addresses = "list" THEN "address"
  ELSE IF pr.address THEN "address"
  ELSE IF pr.transaction_hashes = "list" THEN "tx_hash"
  ELSE IF pr.transaction_hash THEN "tx_hash"
  ELSE None

\* the selected key is used without looking it up in the catalog
CatalogGet_no_lookup(catalog, tool_key) == tool_key

\* mcp_tools.get(tool_key)
CatalogGet(catalog, tool_key) == IF tool_key \in catalog THEN tool_key ELSE None

\* lines 311-421: the outcome of entity extraction, routing and fallback
Resolve(p, pr, catalog, tool_key, history) ==
  IF UseFallback(pr)
    THEN LET c == FallbackChoice(tool_key, FallbackAddress(p, history),
                                 FallbackTxHash(p, history))
         IN  IF c.tool = None
               THEN [abort |-> "err_no_addr", fallback |-> TRUE, tool |-> None, args |-> None]
               ELSE [abort |-> None, fallback |-> TRUE,
                     tool |-> CatalogGet(catalog, c.tool), args |-> c.args]
    ELSE IF NormalArgs(pr) = None
      THEN [abort |-> "err_no_parsed", fallback |-> FALSE, tool |-> None, args |-> None]
      ELSE [abort |-> None, fallback |-> FALSE,
            tool |-> CatalogGet(catalog, tool_key), args |-> NormalArgs(pr)]

\* the history entry of lines 426-431 and 509-515
Entry(p, pr, t, args, result) ==
  [prompt |-> p, parsed |-> pr, tool |-> t, tool_args |-> args, result |-> result]

(***************************************************************************)
(* Tool resolution alone (lines 315-421), for every prompt, parsed         *)
(* mapping, catalog, router result and session history.                    *)
(***************************************************************************)
\* the histories of a session: empty, or the turn of an earlier request that
\* called a tool with an address or with a hash
RouteHistories ==
  {<<>>, <<Entry([addr |-> TRUE, tx |-> FALSE], NoParsed, "analyze_address", "address", NoItem)>>,
   <<Entry(NoPrompt, [NoParsed EXCEPT !.transaction_hash = TRUE], "get_transaction_details",
           "tx_hash", NoItem)>>}

\* what map_intent_to_tool_llm can return for the catalog: one of its keys, or None
RouterResults(catalog) == catalog \cup {None}

RouteInputs ==
  {[prompt |-> p, parsed |-> pr, mcp_tools |-> c, tool_key |-> k, history |-> h] :
     p \in Prompts, pr \in ParsedValues, c \in Catalogs, k \in ToolNames \cup {None},
     h \in RouteHistories}

NoChoice == [tool |-> None, args |-> None]

NoResolution == [abort |-> None, fallback |-> FALSE, tool |-> None, args |-> None]

NoRoute == [input |-> [prompt |-> NoPrompt, parsed |-> NoParsed, mcp_tools |-> {},
                       tool_key |-> None, history |-> <<>>],
            done |-> FALSE, choice |-> NoChoice, result |-> NoResolution]

\* lines 315-421: the request resolves its tool and arguments
ResolveRequest ==
  /\ ~route.done
  /\ LET i == route.input
     IN  route' = [route EXCEPT
           !.done = TRUE,
           !.choice = IF UseFallback(i.parsed)
                        THEN FallbackChoice(i.tool_key, FallbackAddress(i.prompt, i.history),
                                            FallbackTxHash(i.prompt, i.history))
                        ELSE NoChoice,
           !.result = Resolve(i.prompt, i.parsed, i.mcp_tools, i.tool_key, i.history)]
  /\ UNCHANGED <<bridgeVars, workerVars, queueVars, storeVars, concVars, cacheVars,
                 claudeVars, llmVars, lockVars, streamVars>>

(***************************************************************************)
(* The analysis request: async_analyze_prompt, driven by analyze().        *)
(***************************************************************************)
Yield(lines) == output' = output \o lines

\* the loop condition with an off-by-one item bound
LoopCond_one_more(c, e) == c <= MAX_ITEMS /\ e < BUDGET

\* line 491: the condition of the streaming loop
LoopCond(c, e) == c < MAX_ITEMS /\ e < BUDGET

\* lines 311-438 and 519-520: extraction, routing, fallback, and either an abort
\* or the first history entry and the start of the stream worker
ReceivePrompt(key, p, pr, catalog, tool_key) ==
  /\ pc = "start"
  /\ LET r == Resolve(p, pr, catalog, tool_key, get_session_history(SESSION_HISTORY, key))
         head == <<Line("received", None, 0), Line("extracted", None, 0)>>
                   \o (IF r.fallback /\ r.abort = None
                         THEN <<Line("warn_fallback", r.args, 0)>> ELSE <<>>)
     IN  /\ session_id' = key
         /\ prompt' = p
         /\ parsed' = pr
         /\ tool' = r.tool
         /\ tool_args' = r.args
         /\ mcp_tools' = catalog
         /\ IF r.abort # None
              THEN /\ Yield(head \o <<Line(r.abort, None, 0)>>)
                   /\ pc' = "done"
                   /\ UNCHANGED <<wpc, SESSION_HISTORY, appendLog>>
            ELSE IF r.tool # None /\ r.args # None
              THEN /\ Yield(head \o <<Line("calling", r.tool, 0), Line("connecting", None, 0)>>)
                   /\ SESSION_HISTORY' = append_session_history(SESSION_HISTORY, key,
                                            Entry(p, pr, r.tool, r.args, NoItem))
                   /\ appendLog' = Append(appendLog, <<key, Entry(p, pr, r.tool, r.args, NoItem)>>)
                   /\ wpc' = "connecting"
                   /\ pc' = "await_sid"
              ELSE /\ Yield(head \o <<Line("err_no_tool", None, 0)>>)
                   /\ pc' = "done"
                   /\ UNCHANGED <<wpc, SESSION_HISTORY, appendLog>>
  /\ UNCHANGED <<posts, mcp_session_id, count, last_result, elapsed, waited, stop_event,
                 joined, wsession_id, nread, noise, firstSid, queueVars, lastRead, auxVars>>

\* lines 311-317, 544-545: the router raises (it indexes the first word of a reply
\* that has none, line 301, or reads the description a catalog entry lacks, line
\* 266); the exception leaves the generator after the extraction-echo line and
\* run() reports it
ResolveRaises(key, p, pr, catalog) ==
  /\ pc = "start"
  /\ session_id' = key
  /\ prompt' = p
  /\ parsed' = pr
  /\ mcp_tools' = catalog
  /\ Yield(<<Line("received", None, 0), Line("extracted", None, 0),
             Line("err_exception", None, 0)>>)
  /\ pc' = "done"
  /\ UNCHANGED <<tool, tool_args, posts, mcp_session_id, count, last_result,
                 elapsed, waited, stop_event, joined, workerVars, queueVars, storeVars, auxVars>>

\* the caller takes the newest identifier of the queue instead of the oldest
GetSessionId_newest ==
  /\ pc = "await_sid"
  /\ session_id_queue # <<>>
  /\ mcp_session_id' = session_id_queue[Len(session_id_queue)]
  /\ session_id_queue' = SubSeq(session_id_queue, 1, Len(session_id_queue) - 1)
  /\ Yield(<<Line("using_sid", session_id_queue[Len(session_id_queue)], 0)>>)
  /\ pc' = "init_send"
  /\ waited' = 0
  /\ UNCHANGED <<session_id, prompt, parsed, tool, tool_args, mcp_tools, posts, count, last_result,
                 elapsed, stop_event, joined, workerVars, message_queue, storeVars, auxVars>>

\* lines 439-440, 446: session_id_queue.get returns the identifier
GetSessionId ==
  /\ pc = "await_sid"
  /\ session_id_queue # <<>>
  /\ mcp_session_id' = Head(session_id_queue)
  /\ session_id_queue' = Tail(session_id_queue)
  /\ Yield(<<Line("using_sid", Head(session_id_queue), 0)>>)
  /\ pc' = "init_send"
  /\ waited' = 0
  /\ UNCHANGED <<session_id, prompt, parsed, tool, tool_args, mcp_tools, posts, count, last_result,
                 elapsed, stop_event, joined, workerVars, message_queue, storeVars, auxVars>>

\* lines 441-442: the rest of the bounded wait passes on an empty queue; get raises
\* and the stop flag is set
SidTimeout ==
  /\ pc = "await_sid"
  /\ session_id_queue = <<>>
  /\ waited + TickLen >= SID_TIMEOUT
  /\ waited' = SID_TIMEOUT
  /\ stop_event' = TRUE
  /\ pc' = "join_sid"
  /\ UNCHANGED <<session_id, prompt, parsed, tool, tool_args, mcp_tools, output, posts, mcp_session_id,
                 count, last_result, elapsed, joined, workerVars, queueVars, storeVars, auxVars>>

\* the error is reported without waiting for the worker thread to end
JoinWorker_no_join ==
  /\ pc = "join_sid"
  /\ joined' = TRUE
  /\ Yield(<<Line("err_no_sid", None, 0)>>)
  /\ pc' = "done"
  /\ UNCHANGED <<session_id, prompt, parsed, tool, tool_args, mcp_tools, posts, mcp_session_id, count,
                 last_result, elapsed, waited, stop_event, workerVars, queueVars, storeVars, auxVars>>

\* lines 443-445: sse_thread.join() returns once the worker has ended
JoinWorker ==
  /\ pc = "join_sid"
  /\ wpc \in {"ended", "failed"}
  /\ joined' = TRUE
  /\ Yield(<<Line("err_no_sid", None, 0)>>)
  /\ pc' = "done"
  /\ UNCHANGED <<session_id, prompt, parsed, tool, tool_args, mcp_tools, posts, mcp_session_id, count,
                 last_result, elapsed, waited, stop_event, workerVars, queueVars, storeVars, auxVars>>

Post(method, name) ==
  [method |-> method, name |-> name, sid |-> mcp_session_id, status |-> PENDING]

SetStatus(st) == [posts EXCEPT ![Len(posts)].status = st]

callerFrame == <<session_id, prompt, parsed, tool, tool_args, mcp_tools, mcp_session_id, count,
                 last_result, elapsed, waited, stop_event, joined, workerVars, queueVars,
                 storeVars, auxVars>>

\* line 461: the initialize POST is sent
SendInitialize ==
  /\ pc = "init_send"
  /\ posts' = Append(posts, Post("initialize", None))
  /\ pc' = "init_wait"
  /\ UNCHANGED <<output, callerFrame>>

\* lines 461-462: the initialize POST returns; its status is reported, never tested
InitializeReturns(st) ==
  /\ pc = "init_wait"
  /\ posts' = SetStatus(st)
  /\ Yield(<<Line("init_status", None, st)>>)
  /\ pc' = "notif_send"
  /\ UNCHANGED callerFrame

\* the notification is sent while the initialize POST is still in flight
SendInitialized_early ==
  /\ pc \in {"init_wait", "notif_send"}
  /\ posts' = Append(posts, Post("notifications/initialized", None))
  /\ pc' = "notif_wait"
  /\ UNCHANGED <<output, callerFrame>>

\* line 468: the notifications/initialized POST is sent
SendInitialized ==
  /\ pc = "notif_send"
  /\ posts' = Append(posts, Post("notifications/initialized", None))
  /\ pc' = "notif_wait"
  /\ UNCHANGED <<output, callerFrame>>

\* lines 468-469: the status of this response is only printed
InitializedReturns ==
  /\ pc = "notif_wait"
  /\ posts' = SetStatus(RETURNED)
  /\ Yield(<<Line("notif_status", None, 0)>>)
  /\ pc' = "tool_send"
  /\ UNCHANGED callerFrame

\* lines 460-469 are outside any try: an exception of a handshake POST leaves the
\* generator and is reported by run() (lines 544-545)
HandshakeRaises ==
  /\ pc \in {"init_wait", "notif_wait"}
  /\ posts' = SetStatus(RAISED)
  /\ Yield(<<Line("err_exception", None, 0)>>)
  /\ pc' = "done"
  /\ UNCHANGED callerFrame

\* lines 471-485: the tools/call POST is sent
SendToolCall ==
  /\ pc = "tool_send"
  /\ Yield(<<Line("calling2", tool, 0)>>)
  /\ posts' = Append(posts, Post("tools/call", tool))
  /\ pc' = "tool_wait"
  /\ UNCHANGED callerFrame

\* lines 485-491: the tools/call POST returns (its status is only printed) and
\* streaming starts
ToolCallReturns ==
  /\ pc = "tool_wait"
  /\ posts' = SetStatus(RETURNED)
  /\ Yield(<<Line("mcp_status", None, 0)>>)
  /\ count' = 0
  /\ last_result' = NoItem
  /\ elapsed' = 0
  /\ waited' = 0
  /\ pc' = IF LoopCond(0, 0) THEN "get" ELSE "finish"
  /\ UNCHANGED <<session_id, prompt, parsed, tool, tool_args, mcp_tools, mcp_session_id, stop_event,
                 joined, workerVars, queueVars, storeVars, auxVars>>

\* lines 483-485, 516-518: the tools/call POST raises
ToolCallRaises ==
  /\ pc = "tool_wait"
  /\ posts' = SetStatus(RAISED)
  /\ Yield(<<Line("err_mcp_call", None, 0)>>)
  /\ pc' = "done"
  /\ UNCHANGED callerFrame

\* the newest item of the queue is relayed instead of the oldest
Relay_newest ==
  /\ pc = "get"
  /\ message_queue # <<>>
  /\ Yield(<<Line("mcp_sse", None, message_queue[Len(message_queue)])>>)
  /\ last_result' = message_queue[Len(message_queue)]
  /\ message_queue' = SubSeq(message_queue, 1, Len(message_queue) - 1)
  /\ count' = count + 1
  /\ pc' = "loop"
  /\ UNCHANGED <<session_id, prompt, parsed, tool, tool_args, mcp_tools, posts, mcp_session_id, elapsed,
                 waited, stop_event, joined, workerVars, session_id_queue, storeVars, auxVars>>

\* lines 494-498: message_queue.get returns an item, which is relayed
Relay ==
  /\ pc = "get"
  /\ message_queue # <<>>
  /\ Yield(<<Line("mcp_sse", None, Head(message_queue))>>)
  /\ last_result' = Head(message_queue)
  /\ message_queue' = Tail(message_queue)
  /\ count' = count + 1
  /\ pc' = "loop"
  /\ UNCHANGED <<session_id, prompt, parsed, tool, tool_args, mcp_tools, posts, mcp_session_id, elapsed,
                 waited, stop_event, joined, workerVars, session_id_queue, storeVars, auxVars>>

\* line 491: the loop condition is evaluated before the next read
LoopCheck ==
  /\ pc = "loop"
  /\ pc' = IF LoopCond(count, elapsed) THEN "get" ELSE "finish"
  /\ waited' = 0
  /\ UNCHANGED <<session_id, prompt, parsed, tool, tool_args, mcp_tools, output, posts, mcp_session_id,
                 count, last_result, elapsed, stop_event, joined, workerVars, queueVars,
                 storeVars, auxVars>>

\* lines 499-502: the rest of the read timeout passes on an empty queue; get raises
\* queue.Empty, the error is reported and the loop is left
GetTimeout ==
  /\ pc = "get"
  /\ message_queue = <<>>
  /\ waited + TickLen >= GET_TIMEOUT
  /\ waited' = GET_TIMEOUT
  /\ elapsed' = elapsed + (GET_TIMEOUT - waited)
  /\ Yield(<<Line("err_timeout", None, 0)>>)
  /\ pc' = "finish"
  /\ UNCHANGED <<session_id, prompt, parsed, tool, tool_args, mcp_tools, posts, mcp_session_id, count,
                 last_result, stop_event, joined, workerVars, queueVars, storeVars, auxVars>>

\* the result entry is stored whether or not an item was relayed
Finish_always_stores ==
  /\ pc = "finish"
  /\ SESSION_HISTORY' = append_session_history(SESSION_HISTORY, session_id,
                           Entry(prompt, parsed, tool, tool_args, last_result))
  /\ appendLog' = Append(appendLog,
                     <<session_id, Entry(prompt, parsed, tool, tool_args, last_result)>>)
  /\ pc' = "done"
  /\ UNCHANGED <<session_id, prompt, parsed, tool, tool_args, mcp_tools, output, posts, mcp_session_id,
                 count, last_result, elapsed, waited, stop_event, joined, workerVars,
                 queueVars, lastRead, auxVars>>

\* lines 507-515: the result entry is stored if an item was relayed; the generator ends
Finish ==
  /\ pc = "finish"
  /\ IF last_result # NoItem
       THEN /\ SESSION_HISTORY' = append_session_history(SESSION_HISTORY, session_id,
                                     Entry(prompt, parsed, tool, tool_args, last_result))
            /\ appendLog' = Append(appendLog,
                               <<session_id, Entry(prompt, parsed, tool, tool_args, last_result)>>)
       ELSE UNCHANGED <<SESSION_HISTORY, appendLog>>
  /\ pc' = "done"
  /\ UNCHANGED <<session_id, prompt, parsed, tool, tool_args, mcp_tools, output, posts, mcp_session_id,
                 count, last_result, elapsed, waited, stop_event, joined, workerVars,
                 queueVars, lastRead, auxVars>>

\* the passage of TickLen seconds: while a queue.get blocks on an empty queue with
\* more than TickLen seconds of its timeout left, and while the generator is
\* suspended at the yield of a relayed item
Tick ==
  /\ \/ /\ pc = "await_sid"
        /\ session_id_queue = <<>>
        /\ waited + TickLen < SID_TIMEOUT
        /\ waited' = waited + TickLen
        /\ UNCHANGED elapsed
     \/ /\ pc = "get"
        /\ message_queue = <<>>
        /\ waited + TickLen < GET_TIMEOUT
        /\ waited' = waited + TickLen
        /\ elapsed' = elapsed + TickLen
     \/ /\ pc = "loop"
        /\ elapsed < BUDGET
        /\ elapsed' = elapsed + TickLen
        /\ UNCHANGED waited
  /\ UNCHANGED <<pc, session_id, prompt, parsed, tool, tool_args, mcp_tools, output, posts,
                 mcp_session_id, count, last_result, stop_event, joined, workerVars,
                 queueVars, storeVars, auxVars>>

(***************************************************************************)
(* The background stream worker: sse_session_and_stream.                   *)
(***************************************************************************)
workerFrame == <<bridgeVars, storeVars, auxVars>>

\* line 241: the GET /sse connection is established
WorkerConnect ==
  /\ wpc = "connecting"
  /\ wpc' = "reading"
  /\ UNCHANGED <<wsession_id, nread, noise, firstSid, queueVars, workerFrame>>

\* lines 241, 261-262: the connection fails; the exception is logged and the thread ends
WorkerConnectFails ==
  /\ wpc = "connecting"
  /\ wpc' = "failed"
  /\ UNCHANGED <<wsession_id, nread, noise, firstSid, queueVars, workerFrame>>

\* the thread has returned from sse_session_and_stream
WorkerEnded == wpc \in {"ended", "failed"}

\* the worker is inside the loop over sse.events(), blocked in the read of the stream
WorkerBlocked == wpc \in {"reading", "quiet"}

\* the test of lines 251-256 without the test for the session id
Queues_without_sid(ev, sid) == ev.event = "message" /\ ev.data = "obj"

\* lines 251-256: a message event is queued when the worker holds a session id
\* and the data is a JSON object (json.loads of other text and .get of another
\* JSON value raise, and the except of line 257 drops the event)
Queues(ev, sid) == ev.event = "message" /\ sid # None /\ ev.data = "obj"

\* lines 251-256: the event is put on message_queue
IsQueued(ev) == Queues(ev, wsession_id)

\* lines 244-258: the next event of the stream is read and handled; the data of a
\* queued event is named by its ordinal among the events the worker has queued
WorkerRead(ev) ==
  /\ WorkerBlocked
  /\ nread < MaxEvents
  /\ ~IsQueued(ev) => noise < MaxNoise
  /\ nread' = nread + 1
  /\ noise' = IF IsQueued(ev) THEN noise ELSE noise + 1
  /\ IF stop_event
       THEN /\ wpc' = "ended"
            /\ UNCHANGED <<wsession_id, firstSid, queueVars>>
     ELSE IF ev.event = "endpoint" /\ ev.data \in Sids
       THEN /\ wsession_id' = ev.data
            /\ session_id_queue' = Append(session_id_queue, ev.data)
            /\ firstSid' = IF firstSid = None THEN ev.data ELSE firstSid
            /\ wpc' = "reading"
            /\ UNCHANGED message_queue
     ELSE IF IsQueued(ev)
       THEN /\ message_queue' = Append(message_queue, nread + 1 - noise)
            /\ wpc' = "reading"
            /\ UNCHANGED <<wsession_id, firstSid, session_id_queue>>
       ELSE /\ wpc' = "reading"
            /\ UNCHANGED <<wsession_id, firstSid, queueVars>>
  /\ UNCHANGED workerFrame

\* line 244: the read of the stream has been blocked for a while without a byte
\* arriving
WorkerQuiet ==
  /\ wpc = "reading"
  /\ wpc' = "quiet"
  /\ UNCHANGED <<wsession_id, nread, noise, firstSid, queueVars, workerFrame>>

\* lines 241, 244: bytes arrive that form no event (a comment line of the stream);
\* the read timeout of the connection starts anew, sse.events() yields nothing and
\* the stop flag is not tested
WorkerKeepAlive ==
  /\ wpc = "quiet"
  /\ wpc' = "reading"
  /\ UNCHANGED <<wsession_id, nread, noise, firstSid, queueVars, workerFrame>>

\* lines 241, 259-260: no byte arrives for 180 seconds; the ReadTimeout is logged
\* and the thread ends
WorkerReadTimeout ==
  /\ wpc = "quiet"
  /\ wpc' = "ended"
  /\ UNCHANGED <<wsession_id, nread, noise, firstSid, queueVars, workerFrame>>

\* line 244: the remote side closes the stream; the loop over sse.events() ends and
\* the thread with it
WorkerStreamEnds ==
  /\ WorkerBlocked
  /\ wpc' = "ended"
  /\ UNCHANGED <<wsession_id, nread, noise, firstSid, queueVars, workerFrame>>

(***************************************************************************)
(* The specification of one analysis request.                              *)
(***************************************************************************)
\* the requests of the bridge specification: one per outcome of lines 311-431
RequestInputs ==
  { [key |-> "k1", prompt |-> NoPrompt, parsed |-> NoParsed,
     mcp_tools |-> ToolNames, tool_key |-> None],
    [key |-> "k1", prompt |-> [addr |-> TRUE, tx |-> FALSE],
     parsed |-> [NoParsed EXCEPT !.addresses = "list"],
     mcp_tools |-> ToolNames, tool_key |-> "analyze_address"],
    [key |-> "k1", prompt |-> [addr |-> TRUE, tx |-> FALSE],
     parsed |-> [NoParsed EXCEPT !.addresses = "list"],
     mcp_tools |-> {}, tool_key |-> None],
    [key |-> "k2", prompt |-> NoPrompt,
     parsed |-> [NoParsed EXCEPT !.addresses = "other"],
     mcp_tools |-> ToolNames, tool_key |-> "analyze_address"],
    [key |-> "k2", prompt |-> NoPrompt, parsed |-> NoParsed,
     mcp_tools |-> {}, tool_key |-> None],
    [key |-> "k1", prompt |-> [addr |-> TRUE, tx |-> FALSE], parsed |-> NoParsed,
     mcp_tools |-> {"get_transaction_details"}, tool_key |-> None] }

(***************************************************************************)
(* The stream worker and the relay loop alone, with a log of the events    *)
(* the worker read: which event stands behind each relayed item.           *)
(***************************************************************************)
NoStream == [session_id |-> None, caller |-> "await_sid", log |-> <<>>, queue |-> <<>>,
             relayed |-> <<>>, count |-> 0]

\* the tools/call has been sent
CallSent(st) == st.caller \in {"loop", "done"}

\* lines 244-258: the worker reads the next event of the stream; the item queued
\* for it is named by the position of the event in the log
StreamRead(ev) ==
  /\ Len(stream.log) < MaxStreamEvents
  /\ stream' = [stream EXCEPT
       !.log = Append(@, [event |-> ev.event, data |-> ev.data,
                          sid_known |-> stream.session_id # None,
                          call_sent |-> CallSent(stream)]),
       !.session_id = IF ev.event = "endpoint" /\ ev.data \in Sids THEN ev.data ELSE @,
       !.queue = IF ~(ev.event = "endpoint" /\ ev.data \in Sids) /\ Queues(ev, stream.session_id)
                   THEN Append(@, Len(stream.log) + 1) ELSE @]
  /\ UNCHANGED <<bridgeVars, workerVars, queueVars, storeVars, concVars, cacheVars,
                 claudeVars, llmVars, lockVars, routeVars>>

\* lines 439-446: the caller obtains the session id the worker queued
StreamGetSessionId ==
  /\ stream.caller = "await_sid"
  /\ stream.session_id # None
  /\ stream' = [stream EXCEPT !.caller = "handshake"]
  /\ UNCHANGED <<bridgeVars, workerVars, queueVars, storeVars, concVars, cacheVars,
                 claudeVars, llmVars, lockVars, routeVars>>

\* lines 460-490: the handshake is done and the tools/call is sent
StreamSendToolCall ==
  /\ stream.caller = "handshake"
  /\ stream' = [stream EXCEPT !.caller = "loop"]
  /\ UNCHANGED <<bridgeVars, workerVars, queueVars, storeVars, concVars, cacheVars,
                 claudeVars, llmVars, lockVars, routeVars>>

\* lines 491-498: the loop takes the oldest item of message_queue and relays it
StreamRelay ==
  /\ stream.caller = "loop"
  /\ stream.count < MAX_ITEMS
  /\ stream.queue # <<>>
  /\ stream' = [stream EXCEPT !.relayed = Append(@, Head(stream.queue)),
                              !.queue = Tail(@),
                              !.count = @ + 1]
  /\ UNCHANGED <<bridgeVars, workerVars, queueVars, storeVars, concVars, cacheVars,
                 claudeVars, llmVars, lockVars, routeVars>>

\* lines 491, 499-506: the loop ends on its bounds or on the timeout of the read
StreamLoopEnds ==
  /\ stream.caller = "loop"
  /\ stream' = [stream EXCEPT !.caller = "done"]
  /\ UNCHANGED <<bridgeVars, workerVars, queueVars, storeVars, concVars, cacheVars,
                 claudeVars, llmVars, lockVars, routeVars>>

StreamNext ==
  \/ \E ev \in SSEEvents : StreamRead(ev)
  \/ StreamGetSessionId
  \/ StreamSendToolCall
  \/ StreamRelay
  \/ StreamLoopEnds

\* the state after the module is loaded, apart from the inputs of the pure functions
BaseInit ==
  /\ pc = "start"
  /\ session_id = None
  /\ prompt = NoPrompt
  /\ parsed = NoParsed
  /\ tool = None
  /\ tool_args = None
  /\ mcp_tools = {}
  /\ output = <<>>
  /\ posts = <<>>
  /\ mcp_session_id = None
  /\ count = 0
  /\ last_result = NoItem
  /\ elapsed = 0
  /\ waited = 0
  /\ stop_event = FALSE
  /\ joined = FALSE
  /\ wpc = "idle"
  /\ wsession_id = None
  /\ nread = 0
  /\ noise = 0
  /\ firstSid = None
  /\ session_id_queue = <<>>
  /\ message_queue = <<>>
  /\ SESSION_HISTORY = EmptyStore
  /\ appendLog = <<>>
  /\ lastRead = NoRead
  /\ heap = <<>>
  /\ bind = EmptyStore
  /\ appender = [t \in Threads |-> Idle]
  /\ mcp_tools_cache = NoCache
  /\ mcp_tools_cache_time = 0
  /\ now = 0
  /\ getLog = <<>>
  /\ claude = NotCalled
  /\ getter = [t \in Threads |-> NotGetting]
  /\ cache_lock = None
  /\ lockLog = <<>>
  /\ attempts = <<>>
  /\ stream = NoStream

Init ==
  /\ BaseInit
  /\ parse = NoParse
  /\ intent = NoIntent
  /\ route = NoRoute

CallerNext ==
  \/ \E r \in RequestInputs : ReceivePrompt(r.key, r.prompt, r.parsed, r.mcp_tools, r.tool_key)
  \/ \E r \in RequestInputs : ResolveRaises(r.key, r.prompt, r.parsed, r.mcp_tools)
  \/ GetSessionId
  \/ SidTimeout
  \/ JoinWorker
  \/ SendInitialize
  \/ \E st \in Statuses : InitializeReturns(st)
  \/ SendInitialized
  \/ InitializedReturns
  \/ HandshakeRaises
  \/ SendToolCall
  \/ ToolCallReturns
  \/ ToolCallRaises
  \/ Relay
  \/ LoopCheck
  \/ GetTimeout
  \/ Finish

WorkerNext ==
  \/ WorkerConnect
  \/ WorkerConnectFails
  \/ \E ev \in SSEEvents : WorkerRead(ev)
  \/ WorkerQuiet
  \/ WorkerKeepAlive
  \/ WorkerReadTimeout
  \/ WorkerStreamEnds

Next == CallerNext \/ WorkerNext \/ Tick

Spec == Init /\ [][Next]_vars

\* The request is driven by the response iterator and the worker is a thread of its
\* own; time passes; every POST and every queue read of the caller has a timeout, and
\* so has the opening of the stream connection.  What arrives on an open stream is
\* the choice of the remote side: it may send events, close, stay silent until the
\* read timeout of 180 seconds ends the worker, or keep sending bytes that form no
\* event, so only the passage of time and the read timeout are fair.
LiveSpec ==
  /\ Spec
  /\ WF_vars(CallerNext)
  /\ WF_vars(Tick)
  /\ WF_vars(WorkerConnect \/ WorkerConnectFails)
  /\ WF_vars(WorkerQuiet)
  /\ WF_vars(WorkerReadTimeout)

(***************************************************************************)
(* The specification of the conversation history store on its own: any     *)
(* sequence of appends and reads over a small set of keys and entries.     *)
(***************************************************************************)
\* a call of append_session_history(key, entry)
HistAppend(key, entry) ==
  /\ Len(appendLog) < MaxAppends
  /\ SESSION_HISTORY' = append_session_history(SESSION_HISTORY, key, entry)
  /\ appendLog' = Append(appendLog, <<key, entry>>)
  /\ lastRead' = NoRead
  /\ UNCHANGED <<bridgeVars, workerVars, queueVars, auxVars>>

\* a read that creates the entry of an unknown key (setdefault instead of get)
session_history_setdefault(key) ==
  /\ lastRead' = [session_id |-> key, history |-> get_session_history(SESSION_HISTORY, key)]
  /\ SESSION_HISTORY' = [k \in DOMAIN SESSION_HISTORY \cup {key} |->
                           get_session_history(SESSION_HISTORY, k)]
  /\ UNCHANGED appendLog
  /\ UNCHANGED <<bridgeVars, workerVars, queueVars, auxVars>>

\* lines 112-116: GET /session_history returns get_session_history(session_id)
session_history(key) ==
  /\ lastRead' = [session_id |-> key, history |-> get_session_history(SESSION_HISTORY, key)]
  /\ UNCHANGED <<SESSION_HISTORY, appendLog>>
  /\ UNCHANGED <<bridgeVars, workerVars, queueVars, auxVars>>

HistNext ==
  \/ \E k \in Keys, e \in Entries : HistAppend(k, e)
  \/ \E k \in Keys : session_history(k)

HistSpec == Init /\ [][HistNext]_vars

\* the request threads appending to the store concurrently
ConcSpec == Init /\ [][ConcNext]_vars

\* the calls of get_mcp_tools over time
CacheSpec == Init /\ [][CacheNext]_vars

\* one call of call_claude
ClaudeSpec == Init /\ [][ClaudeNext]_vars

\* get_mcp_tools called by two threads while time passes
LockSpec == Init /\ [][LockNext]_vars

\* the worker and the relay loop with the log of the events read
StreamSpec == Init /\ [][StreamNext]_vars

\* tool resolution applied to every input
RouteInit ==
  /\ BaseInit
  /\ parse = NoParse
  /\ intent = NoIntent
  /\ route \in {[NoRoute EXCEPT !.input = i] :
                  i \in {x \in RouteInputs : x.tool_key \in RouterResults(x.mcp_tools)}}

RouteSpec == RouteInit /\ [][ResolveRequest]_vars

\* the extraction parsers applied to every reply of the LLM
ParseInit ==
  /\ BaseInit
  /\ parse \in {[NoParse EXCEPT !.reply = r] : r \in Replies}
  /\ intent = NoIntent
  /\ route = NoRoute

ParseSpec == ParseInit /\ [][ParseNext]_vars

\* the router applied to every reply of the LLM and every catalog
IntentInit ==
  /\ BaseInit
  /\ parse = NoParse
  /\ intent \in {[NoIntent EXCEPT !.reply = r, !.catalog = c] :
                   r \in RouterReplies, c \in CatalogKeys}
  /\ route = NoRoute

IntentSpec == IntentInit /\ [][MapIntent]_vars

(***************************************************************************)
(* Properties of the conversation history store.                           *)
(***************************************************************************)
\* the entries appended under key k, in call order
AppendedTo(k) ==
  LET sel == SelectSeq(appendLog, LAMBDA x : x[1] = k)
  IN  [i \in 1..Len(sel) |-> sel[i][2]]

\* the last min(n, SESSION_HISTORY_MAXLEN) entries appended under k
Window(k) ==
  LET a == AppendedTo(k)
      n == Len(a)
      m == Min(n, SESSION_HISTORY_MAXLEN)
  IN  SubSeq(a, n - m + 1, n)

\* C9: after any sequence of appends on a key, the stored sequence has length
\* min(n, 5) and equals the last min(n, 5) appended entries, oldest first.
C9_HistoryIsLastFive ==
  \A k \in Keys :
    LET h == get_session_history(SESSION_HISTORY, k)
    IN  /\ Len(h) = Min(Len(AppendedTo(k)), SESSION_HISTORY_MAXLEN)
        /\ h = Window(k)

\* seven appends on one key have left five entries
C9_Witness ==
  \E k \in Keys :
    /\ Len(AppendedTo(k)) >= SESSION_HISTORY_MAXLEN + 2
    /\ Len(get_session_history(SESSION_HISTORY, k)) = SESSION_HISTORY_MAXLEN

\* the response of a read is the window of its key, empty for a key never appended to
ReadReturnsWindow ==
  lastRead # NoRead =>
    /\ lastRead.history = Window(lastRead.session_id)
    /\ (AppendedTo(lastRead.session_id) = <<>> => lastRead.history = <<>>)

\* a read changes nothing in the store and creates no entry
ReadChangesNothing ==
  (lastRead' # NoRead /\ appendLog' = appendLog) => SESSION_HISTORY' = SESSION_HISTORY

\* an append on one key leaves every other key as it was
AppendFrame ==
  appendLog' # appendLog =>
    \A k \in Keys \ {appendLog'[Len(appendLog')][1]} :
      /\ (k \in DOMAIN SESSION_HISTORY') = (k \in DOMAIN SESSION_HISTORY)
      /\ get_session_history(SESSION_HISTORY', k) = get_session_history(SESSION_HISTORY, k)

\* C10: a read returns the entries of its key oldest first, and the empty sequence
\* for a key never appended to; a read changes nothing in the store; an append on
\* one key leaves the sequences of all other keys unchanged.
C10_ReadAndFrame ==
  /\ []ReadReturnsWindow
  /\ [][ReadChangesNothing /\ AppendFrame]_vars

\* a key never appended to has been read while the other key holds entries
C10_Witness ==
  /\ lastRead.session_id \in Keys
  /\ lastRead.session_id \notin DOMAIN SESSION_HISTORY
  /\ lastRead.history = <<>>
  /\ \E k \in Keys : Len(get_session_history(SESSION_HISTORY, k)) = SESSION_HISTORY_MAXLEN

(***************************************************************************)
(* Properties of the analysis request.                                     *)
(***************************************************************************)
HasLine(t) == \E i \in 1..Len(output) : output[i].tag = t

\* the data of the relayed items, in output order
Relayed ==
  LET sel == SelectSeq(output, LAMBDA l : l.tag = "mcp_sse")
  IN  [i \in 1..Len(sel) |-> sel[i].num]

Returned(i) == posts[i].status \notin {PENDING, RAISED}

\* C1: initialize, notifications/initialized and tools/call are sent in this order,
\* each only after the previous POST has returned.
C1_HandshakeOrder ==
  /\ Len(posts) <= 3
  /\ Len(posts) >= 1 => posts[1].method = "initialize"
  /\ Len(posts) >= 2 => posts[2].method = "notifications/initialized" /\ Returned(1)
  /\ Len(posts) >= 3 => posts[3].method = "tools/call" /\ Returned(1) /\ Returned(2)

\* the tools/call has been sent after both handshake messages
C1_Witness == Len(posts) = 3 /\ posts[3].method = "tools/call"

\* C2: no POST is issued before the worker has read an endpoint event carrying a
\* session id and the caller has dequeued it; every POST uses the identifier of
\* the first such event.
C2_SessionIdFirst ==
  /\ pc \in {"init_send", "init_wait", "notif_send", "notif_wait", "tool_send", "tool_wait",
             "get", "loop", "finish"} => mcp_session_id = firstSid /\ firstSid \in Sids
  /\ posts # <<>> => /\ firstSid \in Sids
                     /\ mcp_session_id = firstSid
                     /\ \A i \in 1..Len(posts) : posts[i].sid = firstSid

\* all three POSTs were sent although a later endpoint event carried another identifier
C2_Witness == Len(posts) = 3 /\ wsession_id \in Sids /\ wsession_id # firstSid

\* C3: notifications/initialized and tools/call are sent only when the initialize
\* POST returned 202.
C3_AbortUnlessAccepted ==
  Len(posts) >= 2 => posts[1].status = ACCEPTED

\* C4: when a request that started the worker has ended, the stop flag is set and
\* the worker thread has been joined.
C4_WorkerJoinedOnEveryExit ==
  (pc = "done" /\ wpc # "idle") => (stop_event /\ joined /\ WorkerEnded)

ErrorTags == {"err_no_addr", "err_no_parsed", "err_no_tool", "err_no_sid", "err_exception",
              "err_mcp_call", "err_timeout"}

\* C5: every request eventually closes its output stream, whatever the remote
\* stream does, and a request that ends without having relayed an item has emitted
\* an error line.
C5_AlwaysTerminates ==
  /\ <>(pc = "done")
  /\ [](pc = "done" /\ Relayed = <<>> => \E t \in ErrorTags : HasLine(t))

C7_RelayedInReadOrder ==
  /\ \A i, j \in 1..Len(Relayed) : i < j => Relayed[i] < Relayed[j]
  /\ \A i \in 1..Len(Relayed) : Relayed[i] = i
  /\ \A i \in 1..Len(message_queue) :
       \A j \in 1..Len(Relayed) : Relayed[j] < message_queue[i]

\* three items were relayed while further items were queued behind them and the
\* worker had also read events that are not relayed
C7_Witness == Len(Relayed) >= 3 /\ Len(message_queue) >= 2 /\ noise >= 2

\* C8 as stated: no item is relayed once 10 items have been relayed or the 60 s
\* budget has expired.
C8_NoRelayAfterBound ==
  [][(count >= MAX_ITEMS \/ elapsed >= BUDGET) => Relayed' = Relayed]_vars

\* C8 as amended: at most 10 items are relayed; a queue read is started only while
\* fewer than 10 items have been relayed and the 60 s budget has not expired, and
\* an item is relayed only by such a read, within its 10 s timeout.
C8_NoReadAfterBound ==
  /\ [](Len(Relayed) <= MAX_ITEMS /\ count = Len(Relayed))
  /\ [][(pc' = "get" /\ pc # "get") => (count' < MAX_ITEMS /\ elapsed' < BUDGET)]_vars
  /\ [][Relayed' # Relayed => /\ pc = "get"
                              /\ count < MAX_ITEMS
                              /\ elapsed - waited < BUDGET
                              /\ waited < GET_TIMEOUT]_vars

\* ten items were relayed and the request ended with an eleventh still queued
C8_Witness == pc = "done" /\ Len(Relayed) = MAX_ITEMS /\ message_queue # <<>>

Tags == [i \in 1..Len(output) |-> output[i].tag]

\* no turn of the history of the request's session holds an address or a hash
HistoryHoldsNothing ==
  LET history == get_session_history(SESSION_HISTORY, session_id)
  IN  \A i \in 1..Len(history) : ~EntryHasAddr(history[i]) /\ ~EntryHasTx(history[i])

\* C16: when extraction returned the empty mapping and neither the prompt nor the
\* history of the session holds an address or a hash, the output ends with the one
\* error line "[ERROR] No address or transaction hash found ...", no worker was
\* started, no POST was sent and nothing was appended to the history.
C16_FallbackExhausted ==
  (pc = "done" /\ session_id # None /\ parsed = NoParsed /\ ~prompt.addr /\ ~prompt.tx
     /\ HistoryHoldsNothing) =>
    /\ Tags = <<"received", "extracted", "err_no_addr">>
    /\ wpc = "idle"
    /\ posts = <<>>
    /\ appendLog = <<>>

\* the lines the happy path is described by, in the order of their emission
HappyPathTags == <<"extracted", "calling", "using_sid", "init_status", "notif_status",
                   "mcp_sse">>

\* the request whose extraction yielded an address, whose router resolved
\* analyze_address, whose three POSTs returned and whose stream has emitted exactly
\* one result event, which was relayed
HappyPathRequest ==
  /\ pc = "done"
  /\ parsed.addresses = "list"
  /\ tool = "analyze_address"
  /\ Len(posts) = 3
  /\ \A i \in 1..3 : Returned(i)
  /\ posts[1].status = ACCEPTED
  /\ nread - noise = 1
  /\ Len(Relayed) = 1

\* C17: on the happy path with one result event the output contains, in order, the
\* extraction-echo line, the tool-selection line, the session-acquired line, the two
\* handshake-status lines and exactly one [MCP SSE] line, and nothing follows that
\* line.
C17_HappyPathOutput ==
  HappyPathRequest =>
    /\ SelectSeq(Tags, LAMBDA t : t \in {HappyPathTags[i] : i \in 1..Len(HappyPathTags)})
         = HappyPathTags
    /\ output[Len(output)].tag = "mcp_sse"

\* C18: once the stop flag is set the worker thread ends, even if the stream
\* delivers no further event.
C18_WorkerStopsWhenFlagged == stop_event ~> WorkerEnded

\* C19: after the tools/call has been sent, every event the worker reads is put on
\* message_queue, whatever its type and whether or not its data parses.
C19_EveryEventQueued ==
  [][(Len(posts) = 3 /\ nread' = nread + 1)
       => Len(message_queue') = Len(message_queue) + 1]_vars

\* C20: when the worker could not open the stream connection, the request ends
\* without waiting out the session-id timeout and reports something other than the
\* session-id timeout.
C20_ConnectFailureReported ==
  (pc = "done" /\ wpc = "failed") =>
    /\ waited < SID_TIMEOUT
    /\ ~HasLine("err_no_sid")

\* every thread is outside append_session_history
Quiescent == \A t \in Threads : appender[t].pc = "idle"

\* C11: when the concurrent calls of append_session_history have returned, every
\* appended entry is in the sequence of its key unless that sequence is at capacity
\* (eviction of the oldest entries removed it).
C11_NoLostAppend ==
  Quiescent =>
    \A i \in 1..Len(appendLog) :
      LET h == get_session_history(SESSION_HISTORY, appendLog[i][1])
      IN  \/ \E j \in 1..Len(h) : h[j] = appendLog[i][2]
          \/ Len(h) = SESSION_HISTORY_MAXLEN

LastGet == getLog[Len(getLog)]

\* every call whose fetch failed returned the empty mapping and raised nothing
FailedFetchReturnsEmpty ==
  \A i \in 1..Len(getLog) :
    getLog[i].outcome \in FetchFailures => getLog[i].returned = {} /\ ~getLog[i].raised

\* a call whose fetch succeeds stores the fetched catalog and returns it
FetchedCatalogStored ==
  (Len(getLog') = Len(getLog) + 1 /\ getLog'[Len(getLog')].outcome = "ok") =>
    /\ mcp_tools_cache' = getLog'[Len(getLog')].tools
    /\ getLog'[Len(getLog')].returned = mcp_tools_cache'
    /\ mcp_tools_cache_time' = now

\* C12: every failed fetch makes get_mcp_tools return the empty mapping without
\* raising, whether or not a catalog is stored; a later call whose fetch succeeds
\* stores the fetched catalog as the cache and returns it.
C12_FetchFailureAndRefresh ==
  /\ []FailedFetchReturnsEmpty
  /\ [][FetchedCatalogStored]_vars

\* a fetch failed while a catalog that had expired was stored, and the call after it
\* fetched another catalog, which is now the cache
C12_Witness ==
  /\ Len(getLog) = 3
  /\ getLog[1].outcome = "ok"
  /\ getLog[2].outcome = "malformed_body" /\ Truthy(getLog[2].stored)
  /\ getLog[2].returned = {}
  /\ getLog[3].outcome = "ok" /\ getLog[3].tools # getLog[1].tools
  /\ mcp_tools_cache = getLog[3].tools

\* the models of the attempts: the first model twice, then the alternate model twice
AttemptOrder ==
  /\ Len(attempts) <= 4
  /\ \A i \in 1..Len(attempts) :
       attempts[i].model = IF i <= 2 THEN models_to_try[1] ELSE models_to_try[2]

\* a further attempt is made only after an overload answer, and an overload answer
\* ends the call only when it is the fourth
OnlyOverloadRetried ==
  /\ \A i \in 1..Len(attempts) - 1 : Overloaded(attempts[i].answer)
  /\ (claude.pc = "returned" /\ Overloaded(attempts[Len(attempts)].answer)) =>
       Len(attempts) = 4
  /\ claude.result = "overloaded" <=>
       (claude.pc = "returned" /\ Len(attempts) = 4
          /\ \A i \in 1..4 : Overloaded(attempts[i].answer))

\* the first successful attempt ends the call with its content
FirstSuccessReturned ==
  /\ claude.result = "content" <=>
       (claude.pc = "returned" /\ attempts[Len(attempts)].answer.status = 200
          /\ attempts[Len(attempts)].answer.kind = "response")
  /\ (Len(attempts) > 0 /\ ~Overloaded(attempts[Len(attempts)].answer)) =>
       claude.pc = "returned"

\* C13: on 429, 503 or 529 call_claude tries the first model twice, then the
\* alternate model twice, in that order; it returns the overload error only after
\* all four attempts were answered with an overload status, and the content of the
\* first attempt that succeeds, after which no attempt is made.
C13_RetryThenFallback ==
  /\ [](AttemptOrder /\ OnlyOverloadRetried /\ FirstSuccessReturned)
  /\ [][claude.pc = "returned" => attempts' = attempts]_vars

\* the alternate model succeeded on its second attempt after three overload answers
\* of different statuses
C13_Witness ==
  /\ claude.result = "content"
  /\ Len(attempts) = 4
  /\ attempts[1].answer.status = 429
  /\ attempts[2].answer.status = 529
  /\ attempts[3].answer.status = 503

\* C14: for every shape of reply both extraction parsers return a mapping and
\* raise nothing.
C14_ParserReturnsMapping ==
  /\ parse.ton_agent # NotParsed =>
       ~parse.ton_agent.raised /\ IsMapping(parse.ton_agent.json)
  /\ parse.prompt_handler # NotParsed =>
       ~parse.prompt_handler.raised /\ IsMapping(parse.prompt_handler.json)

\* C15: for every reply and every catalog the router returns a key of the
\* catalog or None, and raises nothing.
C15_RouterReturnsKeyOrNone ==
  intent.done =>
    /\ ~intent.raised
    /\ \/ intent.name = None
       \/ \E i \in 1..Len(intent.catalog) : intent.catalog[i] = intent.name

\* the words of the text the router looks at, <<>> when the reply holds no text
RoutedWords ==
  LET r == intent.reply
      withText == {i \in 1..Len(r.blocks) : r.blocks[i].kind \in {"text", "str", "text_not_str"}}
      first == IF withText = {} THEN 0 ELSE CHOOSE i \in withText : \A j \in withText : i <= j
  IN  IF r.shape = "str" THEN SelectSeq(r.text, LAMBDA w : w.form # "space")
      ELSE IF r.shape = "list" /\ first # 0 /\ r.blocks[first].kind # "text_not_str"
        THEN SelectSeq(r.blocks[first].text, LAMBDA w : w.form # "space")
      ELSE <<>>

\* the catalog names the token is part of or that are part of the token, whatever the case
Candidates(w) ==
  {i \in 1..Len(intent.catalog) :
     \/ w.form = "common"
     \/ w.form \in {"exact", "case", "part", "wrapped"} /\ w.base = intent.catalog[i]}

\* C23: when the reply has a first token, a token equal to a catalog name gives
\* that name; any other token gives the first catalog name, in catalog order,
\* that contains it or is contained in it whatever the case; else None.  The
\* result is fixed by the reply and the catalog.
C23_MatchingPolicy ==
  (intent.done /\ RoutedWords # <<>>) =>
    LET w == RoutedWords[1]
    IN  /\ ~intent.raised
        /\ IF w.form = "exact" /\ \E i \in 1..Len(intent.catalog) : intent.catalog[i] = w.base
             THEN intent.name = w.base
           ELSE IF Candidates(w) = {} THEN intent.name = None
           ELSE \E i \in Candidates(w) :
                  /\ \A j \in Candidates(w) : i <= j
                  /\ intent.name = intent.catalog[i]

\* a token that only contains a name, and one that is part of both names, were routed
C23_Witness ==
  /\ intent.done /\ RoutedWords # <<>>
  /\ Len(intent.catalog) = 2
  /\ RoutedWords[1].form \in {"wrapped", "common"}
  /\ intent.name = intent.catalog[IF RoutedWords[1].form = "common" THEN 1 ELSE 2]

\* the text of a block holds no JSON value, neither as a whole nor between braces
HoldsNoJson(b) ==
  /\ b.kind \in {"text", "str"}
  /\ ~IsJsonValue(StripFence(b.text))
  /\ ~IsJsonValue(BraceSpan(StripFence(b.text)))

\* the text of a block is a JSON object, fenced or not
HoldsObject(b) == b.kind \in {"text", "str"} /\ IsMapping(StripFence(b.text))

\* the blocks after the first that hold an object while no block before them holds JSON
LaterObjects ==
  {i \in 2..Len(parse.reply.blocks) :
     /\ HoldsObject(parse.reply.blocks[i])
     /\ \A j \in 1..i - 1 : HoldsNoJson(parse.reply.blocks[j])}

\* C24: for a list reply whose first block holds no JSON and a later block holds
\* an object, each parser returns the object of that later block.
C24_LaterBlockParsed ==
  \A i \in LaterObjects :
    /\ parse.ton_agent # NotParsed =>
         parse.ton_agent = Returns(StripFence(parse.reply.blocks[i].text))
    /\ parse.prompt_handler # NotParsed =>
         parse.prompt_handler = Returns(StripFence(parse.reply.blocks[i].text))

\* the answer is a failure that is no overload status: an exception of the
\* transport, or an error status other than 429, 503, 529
OtherFailure(a) ==
  \/ a.kind = "exception"
  \/ a.kind = "response" /\ a.status \notin {200, 429, 503, 529}

\* C30: an attempt answered with a failure that is no overload status is the last
\* one: call_claude has returned an error mapping and made no attempt after it;
\* no call makes more than four attempts, and every answered attempt either
\* leaves the call posting again or returned with a value.
C30_OtherFailureEndsCall ==
  /\ Len(attempts) <= 4
  /\ \A i \in 1..Len(attempts) :
       OtherFailure(attempts[i].answer) =>
         /\ i = Len(attempts)
         /\ claude.pc = "returned"
         /\ claude.result \in {"api_error", "request_failed"}
  /\ claude.pc \in {"idle", "posting", "returned"}
  /\ claude.pc = "returned" =>
       claude.result \in {"content", "api_error", "request_failed", "overloaded"}

\* the alternate model was reached and its first attempt failed in the transport
C30_Witness ==
  /\ claude.pc = "returned"
  /\ Len(attempts) = 3
  /\ attempts[3].answer.kind = "exception"
  /\ attempts[3].model = models_to_try[2]
  /\ claude.result = "request_failed"

\* a fetch succeeded before and less than the time-to-live has passed since
WithinTtlOfFetch ==
  mcp_tools_cache # NoCache /\ now - mcp_tools_cache_time < 300

\* C26: a call of get_mcp_tools made less than 300 s after a successful fetch
\* issues no fetch and returns the catalog of that fetch, whatever catalog it
\* was, the empty one included.
C26_CachedWithinTtl ==
  [][(Len(getLog') = Len(getLog) + 1 /\ WithinTtlOfFetch) =>
       /\ getLog'[Len(getLog')].outcome = "cached"
       /\ getLog'[Len(getLog')].returned = mcp_tools_cache
       /\ ~getLog'[Len(getLog')].raised]_vars

\* no two threads wait for the answer of GET /tools at the same time
OneFetchInFlight ==
  \A t, u \in Threads : (getter[t].pc = "fetching" /\ getter[u].pc = "fetching") => t = u

\* a thread that reads the time, under the lock, less than 300 s after the time
\* stamp of a stored catalog that is not empty returns it and sends no GET
FreshIsServed(t) ==
  (getter[t].pc = "check" /\ getter'[t].pc # "check"
     /\ mcp_tools_cache \notin {NoCache, {}}
     /\ getter[t].now - mcp_tools_cache_time < 300) =>
    /\ getter'[t].pc = "idle"
    /\ lockLog' = Append(lockLog, [thread |-> t, outcome |-> "cached",
                                    returned |-> mcp_tools_cache, at |-> getter[t].now,
                                    waited_fetch |-> getter[t].waited_fetch])
    /\ UNCHANGED <<mcp_tools_cache, mcp_tools_cache_time>>

\* a thread that waited for the lock while another thread's fetch succeeded with a
\* catalog that is not empty returns that catalog and sends no GET
WaiterIsServed(t) ==
  (getter[t].pc = "check" /\ getter'[t].pc # "check" /\ getter[t].waited_fetch) =>
    /\ getter'[t].pc = "idle"
    /\ lockLog'[Len(lockLog')].outcome = "cached"

\* C25 as stated: never two fetches in flight, and of the callers that meet on a
\* cache that is absent or expired only one fetches when that fetch succeeds with
\* a catalog that is not empty; the others return the catalog it stored.
C25_ExactlyOneFetch ==
  /\ []OneFetchInFlight
  /\ [][\A t \in Threads : WaiterIsServed(t)]_vars

\* C25 amended: never two fetches in flight, and a caller returns the stored
\* catalog without a fetch when the time it reads under the lock is less than
\* 300 s after the time the fetching caller read under the lock.
C25_OneFetchAtATime ==
  /\ []OneFetchInFlight
  /\ [][\A t \in Threads : FreshIsServed(t)]_vars

\* two threads met on the absent cache: one fetched a catalog, the other waited
\* for the lock meanwhile and returned that catalog without a fetch
C25_Witness ==
  /\ Len(lockLog) = 2
  /\ lockLog[1].outcome = "ok" /\ lockLog[1].returned # {}
  /\ lockLog[2].outcome = "cached" /\ lockLog[2].waited_fetch
  /\ lockLog[2].thread # lockLog[1].thread
  /\ lockLog[2].returned = lockLog[1].returned

\* the router resolved no tool although the catalog holds both tools
RoutingFailed == route.input.tool_key = None /\ route.input.mcp_tools = ToolNames

\* an address or a hash can be extracted from the prompt
Extractable == route.input.prompt.addr \/ route.input.prompt.tx

\* C21: when the router resolved no tool and the prompt holds an address or a
\* hash, the heuristic extraction runs and the request goes on to a tool call,
\* whether or not the parsed mapping carries addresses or hashes.
C21_RoutingFailureFallsBack ==
  (route.done /\ RoutingFailed /\ Extractable) =>
    /\ route.result.fallback
    /\ route.result.abort = None
    /\ route.result.tool \in ToolNames
    /\ route.result.args # None

\* what the heuristic extraction found
FoundAddress ==
  route.input.prompt.addr
    \/ \E i \in 1..Len(route.input.history) :
         route.input.history[i].prompt.addr \/ route.input.history[i].tool_args = "address"

FoundHash ==
  route.input.prompt.tx
    \/ \E i \in 1..Len(route.input.history) :
         route.input.history[i].prompt.tx \/ route.input.history[i].tool_args = "tx_hash"

\* the fallback path was taken
FallbackTaken ==
  /\ route.done
  /\ route.input.parsed.addresses = "none" /\ ~route.input.parsed.address
  /\ route.input.parsed.transaction_hashes = "none"

\* C22: in the fallback path the operation is analyze_address with the address
\* when the hint is analyze_address and an address was found; else
\* get_transaction_details with the hash when the hint is get_transaction_details
\* and a hash was found; else analyze_address when an address was found; else
\* get_transaction_details when a hash was found; else the request aborts.  The
\* operation comes with the one argument it takes.
C22_FallbackPriority ==
  FallbackTaken =>
    LET hint == route.input.tool_key
        expected ==
          IF hint = "analyze_address" /\ FoundAddress THEN "analyze_address"
          ELSE IF hint = "get_transaction_details" /\ FoundHash THEN "get_transaction_details"
          ELSE IF FoundAddress THEN "analyze_address"
          ELSE IF FoundHash THEN "get_transaction_details"
          ELSE None
    IN  /\ route.choice.tool = expected
        /\ route.choice.args = (CASE expected = "analyze_address" -> "address"
                                  [] expected = "get_transaction_details" -> "tx_hash"
                                  [] OTHER -> None)
        /\ (expected = None) <=> (route.result.abort = "err_no_addr")
        /\ expected # None => route.result.args = route.choice.args

\* the hint named the hash operation while both an address and a hash were found
C22_Witness ==
  /\ FallbackTaken
  /\ route.input.tool_key = "get_transaction_details"
  /\ FoundAddress /\ FoundHash
  /\ route.choice = [tool |-> "get_transaction_details", args |-> "tx_hash"]

\* the name in every tools/call envelope is a key of the request's catalog
CalledToolInCatalog ==
  \A i \in 1..Len(posts) : posts[i].method = "tools/call" => posts[i].name \in mcp_tools

\* the request is over and its catalog is empty or lacks the tool selected for the
\* arguments it resolved
NoToolForRequest ==
  /\ pc = "done" /\ session_id # None
  /\ mcp_tools = {} \/ (tool = None /\ tool_args # None)

\* the request is over and nothing was done for it: no stream, no POST, no entry
NothingDone == wpc = "idle" /\ posts = <<>> /\ appendLog = <<>>

\* C27 as stated: the tool of a tools/call is a key of the catalog of the request,
\* and a request whose catalog is empty or lacks the selected tool opens no
\* stream, sends no POST, appends no entry and ends with the no-tool error line.
C27_OnlyCatalogTools ==
  /\ CalledToolInCatalog
  /\ NoToolForRequest =>
       /\ NothingDone
       /\ output[Len(output)].tag = "err_no_tool"

\* C27 amended: the tool of a tools/call is a key of the catalog of the request,
\* and a request whose catalog is empty or lacks the selected tool opens no
\* stream, sends no POST, appends no entry and ends with one error line: the
\* no-tool line when arguments were resolved, else the abort line of the path
\* that found no argument or the line of the exception the router raised.
C27_NoToolNothingDone ==
  /\ CalledToolInCatalog
  /\ NoToolForRequest =>
       /\ NothingDone
       /\ Cardinality({i \in 1..Len(output) : output[i].tag \in ErrorTags}) = 1
       /\ output[Len(output)].tag =
            (IF tool_args # None THEN "err_no_tool"
             ELSE IF HasLine("err_exception") THEN "err_exception"
             ELSE IF parsed = NoParsed \/ UseFallback(parsed) THEN "err_no_addr"
             ELSE "err_no_parsed")

\* the heuristic chose analyze_address for a catalog that holds only the other tool
C27_Witness ==
  /\ pc = "done"
  /\ mcp_tools = {"get_transaction_details"}
  /\ tool = None /\ tool_args = "address"
  /\ HasLine("warn_fallback")
  /\ output[Len(output)].tag = "err_no_tool"
  /\ NothingDone

\* C28: the request appends nothing before it has resolved a tool and arguments;
\* its first entry carries no result and is there before the stream is opened; a
\* second entry exists only when an item was relayed and carries the last
\* relayed item, and a request that has ended has it if and only if it relayed
\* an item; there are never more than two entries.
C28_HistoryAppends ==
  /\ Len(appendLog) <= 2
  /\ appendLog # <<>> =>
       /\ tool # None /\ tool_args # None
       /\ appendLog[1] = <<session_id, Entry(prompt, parsed, tool, tool_args, NoItem)>>
  /\ wpc # "idle" => appendLog # <<>>
  /\ Len(appendLog) = 2 =>
       /\ Relayed # <<>>
       /\ appendLog[2] = <<session_id,
                           Entry(prompt, parsed, tool, tool_args, Relayed[Len(Relayed)])>>
  /\ pc = "done" => (Len(appendLog) = 2 <=> Relayed # <<>>)
  /\ (pc = "done" /\ (tool = None \/ tool_args = None)) => appendLog = <<>>

\* a request relayed two items and stored the second one as its result
C28_Witness ==
  /\ pc = "done"
  /\ Len(Relayed) = 2
  /\ Len(appendLog) = 2
  /\ appendLog[2][2].result = Relayed[2]
  /\ appendLog[1][2].result = NoItem

\* the logged events that are message events read while the worker held a
\* session id and whose data is JSON of the given kinds, in read order
MessagesAfterSid(kinds) ==
  SelectSeq([i \in 1..Len(stream.log) |-> i],
            LAMBDA i : /\ stream.log[i].event = "message"
                       /\ stream.log[i].sid_known
                       /\ stream.log[i].data \in kinds)

\* every relayed item stands for a message event with JSON data that was read
\* after an endpoint event with a session id
RelayedAreMessages ==
  \A k \in 1..Len(stream.relayed) :
    LET e == stream.log[stream.relayed[k]]
    IN  /\ e.event = "message"
        /\ e.data \in {"obj", "array"}
        /\ e.sid_known
        /\ \E j \in 1..stream.relayed[k] - 1 :
             stream.log[j].event = "endpoint" /\ stream.log[j].data \in Sids

=============================================================================
